---- MODULE Spec2Model ----
(***************************************************************************)
(* A model of Translonpredictor/fileprocessor.py: the pipeline that lifts  *)
(* genomic read intervals into transcript space (bamtranscript /           *)
(* get_bam_tran), then into CDS-relative space (bamrelativetocds), infers  *)
(* a per-length offset (change_point_analysis) and aggregates A-site       *)
(* counts (asitecalc), as sequenced by dftobed.                            *)
(*                                                                         *)
(* Data frames are sequences of records (one record per row).  The         *)
(* histogram handed to change_point_analysis is the output of a group_by   *)
(* and is kept as a set of rows: its keys are unique and polars leaves the *)
(* row order of a group_by unspecified.  Python's None is the empty        *)
(* sequence and a value v that may be None is <<v>>.                       *)
(***************************************************************************)
EXTENDS Integers, Sequences, FiniteSets, TLC

VARIABLES
    pc,                 \* position in the modelled call
    bam_df,             \* reads: rows [count, chr, start, stop, length]
    exon_df,            \* annotation: rows [chr, tran_id, start, stop, tran_start,
                        \* tran_stop], the last four lists with one entry per exon
    cds_df,             \* CDS table: rows [tran_id, tran_start]
    offsets,            \* the name `offsets` of dftobed/asitecalc: [none, map]
    offsets_arg,        \* the offsets argument as the caller passed it
    bam_tran,           \* result of bamtranscript: [rows, nulls]
    bam_to_cds,         \* result of bamrelativetocds
    offset_df,          \* histogram passed to change_point_analysis
    todo,               \* lengths change_point_analysis has still to visit
    max_shift,          \* change_point_analysis local, in quarters (4 * shift)
    max_shift_position, \* change_point_analysis local, None or <<i>>
    offset_dict,        \* change_point_analysis local / result
    inferred,           \* TRUE once dftobed has run change_point_analysis
    bed,                \* result of asitecalc
    err                 \* the exception that ended the call, or "none"

vars == <<pc, bam_df, exon_df, cds_df, offsets, offsets_arg, bam_tran, bam_to_cds, offset_df,
          todo, max_shift, max_shift_position, offset_dict, inferred, bed, err>>

(***************************************************************************)
(* Bounds of the model and the small sets the inputs are drawn from.       *)
(***************************************************************************)
MaxCount == 2
MaxReads == 2
MaxCds == 2

None == <<>>
Lengths == {28, 29}
Counts == 1..MaxCount
HistCounts == 0..MaxCount
HistPositions == {-1, 9, 40}

(***************************************************************************)
(* Generic helpers.                                                        *)
(***************************************************************************)
Abs(x) == IF x < 0 THEN -x ELSE x

RECURSIVE SumSeq(_)
SumSeq(s) == IF s = <<>> THEN 0 ELSE Head(s) + SumSeq(Tail(s))

SetMax(S) == CHOOSE x \in S : \A y \in S : y <= x
SetMin(S) == CHOOSE x \in S : \A y \in S : x <= y

(***************************************************************************)
(* change_point_analysis (lines 254-300).                                  *)
(***************************************************************************)
FallbackOffset == 15
ScanFirst == -30
ScanLast == 10

\* offset_df.filter(pl.col("length") == length).sort("bamcds_start")
OffsetDfLen(df, length) == {r \in df : r.length = length}

\* the four-element body of the j loops: the count of the first row at
\* position j, or 0 when the filter is empty
CountAt(df_len, j) ==
    IF \E r \in df_len : r.bamcds_start = j
    THEN (CHOOSE r \in df_len : r.bamcds_start = j).count
    ELSE 0

LeftWindow(df_len, i) == [k \in 1..4 |-> CountAt(df_len, i - 4 + k)]
RightWindow(df_len, i) == [k \in 1..4 |-> CountAt(df_len, i + k)]

\* for i in range(-30, 11): each iteration rebinds i, left and right and does
\* nothing else; what the statements after the loop see is the last binding.
RECURSIVE ForI(_, _, _)
ForI(df_len, i, acc) ==
    IF i > ScanLast THEN acc
    ELSE ForI(df_len, i + 1,
              [i |-> i, left |-> LeftWindow(df_len, i),
               right |-> RightWindow(df_len, i)])

\* the iteration if it recorded an offset only once a change point is known
LengthIterationNoFallback(df, st, length) ==
    LET loop  == ForI(OffsetDfLen(df, length), ScanFirst, [i |-> None])
        shift == Abs(SumSeq(loop.right) - SumSeq(loop.left))
        better == shift > st.max_shift
        ms    == IF better THEN shift ELSE st.max_shift
        msp   == IF better THEN <<loop.i>> ELSE st.max_shift_position
    IN  [max_shift |-> ms, max_shift_position |-> msp,
         offset_dict |-> IF msp = None THEN st.offset_dict
                         ELSE [l \in DOMAIN st.offset_dict \cup {length} |->
                                  IF l = length THEN msp[1] ELSE st.offset_dict[l]]]

\* One iteration of `for length in offset_df["length"].unique()`, lines
\* 271-299, from the locals st = [max_shift, max_shift_position, offset_dict].
\* mean_left, mean_right and shift (lines 290-292) are dedented out of the i
\* loop.  Means are sums / 4; the model keeps 4 * shift, which is exact.
LengthIteration(df, st, length) ==
    LET loop  == ForI(OffsetDfLen(df, length), ScanFirst, [i |-> None])
        shift == Abs(SumSeq(loop.right) - SumSeq(loop.left))
        better == shift > st.max_shift
        ms    == IF better THEN shift ELSE st.max_shift
        msp   == IF better THEN <<loop.i>> ELSE st.max_shift_position
        off   == IF msp = None THEN FallbackOffset ELSE msp[1]
    IN  [max_shift |-> ms, max_shift_position |-> msp,
         offset_dict |-> [l \in DOMAIN st.offset_dict \cup {length} |->
                             IF l = length THEN off ELSE st.offset_dict[l]]]

\* lines 267-269
CpaLocals == [max_shift |-> 0, max_shift_position |-> None, offset_dict |-> <<>>]

\* the whole function when the lengths are visited in the order `order`
RECURSIVE CpaFold(_, _, _)
CpaFold(df, st, order) ==
    IF order = <<>> THEN st
    ELSE CpaFold(df, LengthIteration(df, st, Head(order)), Tail(order))

ChangePointAnalysis(df, order) == CpaFold(df, CpaLocals, order).offset_dict

UniqueLengths(df) == {r.length : r \in df}

(***************************************************************************)
(* Data-frame helpers.                                                     *)
(***************************************************************************)
WindowSize == 225000

RECURSIVE Concat(_)
Concat(ss) == IF ss = <<>> THEN <<>> ELSE Head(ss) \o Concat(Tail(ss))

Range(s) == {s[k] : k \in DOMAIN s}

\* df.filter(p) on a sequence of rows is SelectSeq(df, p).

\* the orders in which an unordered `.unique()` may hand out the set S
Orders(S) == {o \in [1..Cardinality(S) -> S] : \A a, b \in DOMAIN o : o[a] = o[b] => a = b}

\* .explode(["start", "stop", "tran_start", "tran_stop"]) of the annotation:
\* one row per list element, the scalar columns repeated (line 93)
ExplodeRow(row) ==
    [k \in DOMAIN row.start |->
        [chr |-> row.chr, tran_id |-> row.tran_id, start |-> row.start[k],
         stop |-> row.stop[k], tran_start |-> row.tran_start[k],
         tran_stop |-> row.tran_stop[k]]]

ExplodeExons(df) == Concat([k \in DOMAIN df |-> ExplodeRow(df[k])])

(***************************************************************************)
(* get_bam_tran (lines 33-51): inner join on chr, containment filter,      *)
(* projection.  The result is the dictionary of column lists, kept here as *)
(* the list of its rows.                                                   *)
(***************************************************************************)
\* the filter without its test of the read's end
ContainedStartOnly(b, e) == b.start >= e.start

\* line 34-37: the filter on a joined row (start_right/stop_right: the exon's)
Contained(b, e) == b.start >= e.start /\ b.stop <= e.stop

\* lines 38-48: the columns of a joined row that passed the filter
Project(b, e) ==
    [count |-> b.count, chr |-> b.chr, start |-> b.start, stop |-> b.stop,
     length |-> b.length, tran_id |-> e.tran_id,
     tran_start_bam |-> e.tran_start + (b.start - e.start),
     tran_stop_bam |-> e.tran_stop - (e.stop - b.stop)]

\* the joined rows of one read, in the order of exon_df
RECURSIVE JoinRead(_, _)
JoinRead(b, exons) ==
    IF exons = <<>> THEN <<>>
    ELSE (IF b.chr = Head(exons).chr /\ Contained(b, Head(exons))
          THEN <<Project(b, Head(exons))>> ELSE <<>>) \o JoinRead(b, Tail(exons))

get_bam_tran(bam, exons) == Concat([k \in DOMAIN bam |-> JoinRead(bam[k], exons)])

(***************************************************************************)
(* bamtranscript (lines 79-128).                                           *)
(***************************************************************************)
\* range(min_val, max_val, 225000)
WindowStarts(min_val, max_val) ==
    IF max_val <= min_val THEN <<>>
    ELSE [k \in 1..(((max_val - min_val - 1) \div WindowSize) + 1) |->
             min_val + (k - 1) * WindowSize]

\* the rows of df whose start lies in [i, i + 225000)
InWindowByStart(df, i) ==
    LET keep(r) == r.start >= i /\ r.start < i + WindowSize IN SelectSeq(df, keep)

\* lines 105-110: the rows of df kept for the window starting at i
InWindow(df, i) ==
    LET keep(r) == r.start >= i /\ r.stop <= i + WindowSize IN SelectSeq(df, keep)

\* lines 104-113: the dictionaries appended for one chromosome; a window
\* adds one (possibly with empty lists) when both of its frames have rows
ChrResults(bam_with_chr, exon_with_chr) ==
    LET min_val == SetMin({exon_with_chr[k].start : k \in DOMAIN exon_with_chr})
        max_val == SetMax({exon_with_chr[k].stop : k \in DOMAIN exon_with_chr})
        ws == WindowStarts(min_val, max_val)
        one(i) == LET exon_chr == InWindow(exon_with_chr, i)
                      bam_chr == InWindow(bam_with_chr, i)
                  IN  IF exon_chr # <<>> /\ bam_chr # <<>>
                      THEN <<get_bam_tran(bam_chr, exon_chr)>> ELSE <<>>
    IN  Concat([k \in DOMAIN ws |-> one(ws[k])])

\* lines 79-113: `results`, the chromosomes visited in the order chrs
BamTranscriptResults(bam, exon, chrs) ==
    LET uniquechr_bam == {bam[k].chr : k \in DOMAIN bam}
        uniquechr_exon == {exon[k].chr : k \in DOMAIN exon}
        sharedBam(r) == r.chr \in uniquechr_exon
        sharedExon(r) == r.chr \in uniquechr_bam
        bam2 == SelectSeq(bam, sharedBam)
        exon_flattened == ExplodeExons(SelectSeq(exon, sharedExon))
        perChr(c) == LET isC(r) == r.chr = c
                     IN  ChrResults(SelectSeq(bam2, isC), SelectSeq(exon_flattened, isC))
    IN  Concat([k \in DOMAIN chrs |-> perChr(chrs[k])])

\* the chromosomes of the loop at line 97
SharedChrs(bam, exon) ==
    {bam[k].chr : k \in DOMAIN bam} \cap {exon[k].chr : k \in DOMAIN exon}

\* lines 115-127: pl.from_dicts(results).explode(...).  A dictionary of
\* empty lists explodes to a single row of nulls; such rows carry no data
\* and are counted in `nulls`.
ExplodeResults(results) ==
    [rows |-> Concat(results),
     nulls |-> Cardinality({k \in DOMAIN results : results[k] = <<>>})]

(***************************************************************************)
(* bamrelativetocds (lines 221-251).                                       *)
(***************************************************************************)
\* line 189
calculate_differences(start, start_dict) == start - start_dict

\* line 236: dict(zip(tran_id, tran_start)); a later row overwrites an
\* earlier one with the same key
RECURSIVE StartDict(_)
StartDict(cds) ==
    IF cds = <<>> THEN <<>>
    ELSE LET n == Len(cds)
             d == StartDict(SubSeq(cds, 1, n - 1))
         IN  [t \in DOMAIN d \cup {cds[n].tran_id} |->
                 IF t = cds[n].tran_id THEN cds[n].tran_start ELSE d[t]]

\* lines 238-250: one output row
CdsRelativeRow(r, start_dict) ==
    [count |-> r.count, chr |-> r.chr, start |-> r.start, stop |-> r.stop,
     length |-> r.length, tran_id |-> r.tran_id,
     bamcds_start |-> calculate_differences(r.tran_start_bam, start_dict[r.tran_id])]

\* the function without the is_in filter of bamdf (lines 224-228)
bamrelativetocdsUnfiltered(bamdf, cdsdf) ==
    LET uniquetran_bam == {bamdf[k].tran_id : k \in DOMAIN bamdf}
        sharedCds(r) == r.tran_id \in uniquetran_bam
        start_dict == StartDict(SelectSeq(cdsdf, sharedCds))
    IN  IF \E k \in DOMAIN bamdf : bamdf[k].tran_id \notin DOMAIN start_dict
        THEN [ok |-> FALSE, rows |-> <<>>]
        ELSE [ok |-> TRUE,
              rows |-> [k \in DOMAIN bamdf |-> CdsRelativeRow(bamdf[k], start_dict)]]

\* The whole function on the projected rows of bamdf (its all-null rows fail
\* the is_in filter of line 225 and are dropped with the unshared ones).
\* ok is FALSE when a lookup at line 243 raises KeyError.
bamrelativetocds(bamdf, cdsdf) ==
    LET uniquetran_bam == {bamdf[k].tran_id : k \in DOMAIN bamdf}
        uniquetran_cds == {cdsdf[k].tran_id : k \in DOMAIN cdsdf}
        sharedBam(r) == r.tran_id \in uniquetran_cds
        sharedCds(r) == r.tran_id \in uniquetran_bam
        bam2 == SelectSeq(bamdf, sharedBam)
        cds2 == SelectSeq(cdsdf, sharedCds)
        start_dict == StartDict(cds2)
    IN  IF \E k \in DOMAIN bam2 : bam2[k].tran_id \notin DOMAIN start_dict
        THEN [ok |-> FALSE, rows |-> <<>>]
        ELSE [ok |-> TRUE,
              rows |-> [k \in DOMAIN bam2 |-> CdsRelativeRow(bam2[k], start_dict)]]

(***************************************************************************)
(* asitecalc (lines 152-169).                                              *)
(***************************************************************************)
\* lines 153-162: the rows of one length group, shifted by offsets[value]
ASiteRows(df, offs, value) ==
    LET isLen(r) == r.length = value
        g == SelectSeq(df, isLen)
    IN  [k \in DOMAIN g |->
            [chr |-> g[k].chr, count |-> g[k].count, pos |-> g[k].start + offs[value]]]

\* line 166: group_by("chr", "A-site").agg(count.sum()), and line 167
GroupSum(rows) ==
    {[chr |-> key[1], pos |-> key[2], stop |-> key[2] + 1,
      count |-> LET same(r) == r.chr = key[1] /\ r.pos = key[2]
                    g == SelectSeq(rows, same)
                IN  SumSeq([k \in DOMAIN g |-> g[k].count])] :
        key \in {<<rows[k].chr, rows[k].pos>> : k \in DOMAIN rows}}

\* the order of sort(["chr", "A-site"])
BedLeq(a, b) == a.chr < b.chr \/ (a.chr = b.chr /\ a.pos <= b.pos)

\* line 168: sort(["chr", "A-site"]) of the grouped rows
RECURSIVE SortBed(_)
SortBed(S) ==
    IF S = {} THEN <<>>
    ELSE LET m == CHOOSE x \in S : \A y \in S : BedLeq(x, y)
         IN  <<m>> \o SortBed(S \ {m})

\* the function if it passed over the lengths that have no offset
asitecalcSkipMissing(df, offs) ==
    LET values == {df[k].length : k \in DOMAIN df} \cap DOMAIN offs
    IN  IF values = {}
        THEN [err |-> "NoDataError", rows |-> <<>>]
        ELSE LET order == CHOOSE o \in Orders(values) : TRUE
                 y == Concat([k \in DOMAIN order |-> ASiteRows(df, offs, order[k])])
             IN  [err |-> "none", rows |-> SortBed(GroupSum(y))]

\* The whole function.  err names the exception that ends it: offsets[value]
\* raises KeyError for a length without an entry (line 156), and
\* pl.from_dicts(y) raises NoDataError when df has no rows (line 163).
asitecalc(df, offs) ==
    LET values == {df[k].length : k \in DOMAIN df}
    IN  IF \E v \in values : v \notin DOMAIN offs
        THEN [err |-> "KeyError", rows |-> <<>>]
        ELSE IF df = <<>>
        THEN [err |-> "NoDataError", rows |-> <<>>]
        ELSE LET order == CHOOSE o \in Orders(values) : TRUE
                 y == Concat([k \in DOMAIN order |-> ASiteRows(df, offs, order[k])])
             IN  [err |-> "none", rows |-> SortBed(GroupSum(y))]

(***************************************************************************)
(* dftobed (lines 336-350).                                                *)
(***************************************************************************)
\* lines 342-344: group_by("bamcds_start", "length").agg(count.sum())
BamOffsets(df) ==
    {[bamcds_start |-> key[1], length |-> key[2],
      count |-> LET same(r) == r.bamcds_start = key[1] /\ r.length = key[2]
                    g == SelectSeq(df, same)
                IN  SumSeq([k \in DOMAIN g |-> g[k].count])] :
        key \in {<<df[k].bamcds_start, df[k].length>> : k \in DOMAIN df}}

\* line 341: `not offsets` is true of None and of an empty dict
NotOffsets(o) == o.none \/ DOMAIN o.map = {}

(***************************************************************************)
(* The steps of a run.                                                     *)
(***************************************************************************)
\* line 338: bam_tran = bamtranscript(df_namesplit, exon_df)
BamTranscript ==
    /\ pc = "bamtranscript"
    /\ \E chrs \in Orders(SharedChrs(bam_df, exon_df)) :
          LET results == BamTranscriptResults(bam_df, exon_df, chrs)
          IN  IF results = <<>>
              THEN /\ pc' = "failed"
                   /\ err' = "NoDataError"
                   /\ bam_tran' = bam_tran
              ELSE /\ pc' = "bamrelativetocds"
                   /\ err' = err
                   /\ bam_tran' = ExplodeResults(results)
    /\ UNCHANGED <<bam_df, exon_df, cds_df, offsets, offsets_arg, bam_to_cds,
                   offset_df, todo, max_shift, max_shift_position, offset_dict,
                   inferred, bed>>

\* line 340: bam_to_cds = bamrelativetocds(bam_tran, cds_df)
BamRelativeToCds ==
    /\ pc = "bamrelativetocds"
    /\ LET res == bamrelativetocds(bam_tran.rows, cds_df)
       IN  IF res.ok
           THEN /\ pc' = "offsets"
                /\ err' = err
                /\ bam_to_cds' = res.rows
           ELSE /\ pc' = "failed"
                /\ err' = "KeyError"
                /\ bam_to_cds' = bam_to_cds
    /\ UNCHANGED <<bam_df, exon_df, cds_df, offsets, offsets_arg, bam_tran,
                   offset_df, todo, max_shift, max_shift_position, offset_dict,
                   inferred, bed>>

\* lines 341-346, `not offsets` true: histogram, then the call of
\* change_point_analysis, which sets up its locals (lines 267-269)
DfToBedInfer ==
    /\ pc = "offsets"
    /\ NotOffsets(offsets)
    /\ offset_df' = BamOffsets(bam_to_cds)
    /\ todo' = UniqueLengths(BamOffsets(bam_to_cds))
    /\ max_shift' = CpaLocals.max_shift
    /\ max_shift_position' = CpaLocals.max_shift_position
    /\ offset_dict' = CpaLocals.offset_dict
    /\ inferred' = TRUE
    /\ pc' = "change_point_analysis"
    /\ UNCHANGED <<bam_df, exon_df, cds_df, offsets, offsets_arg, bam_tran,
                   bam_to_cds, bed, err>>

\* line 341, `not offsets` false: the supplied map is used as it is
DfToBedSupplied ==
    /\ pc = "offsets"
    /\ ~NotOffsets(offsets)
    /\ pc' = "asitecalc"
    /\ UNCHANGED <<bam_df, exon_df, cds_df, offsets, offsets_arg, bam_tran,
                   bam_to_cds, offset_df, todo, max_shift, max_shift_position,
                   offset_dict, inferred, bed, err>>

\* one iteration of the loop at line 270; unique() fixes no order
CpaLength ==
    /\ pc = "change_point_analysis"
    /\ \E length \in todo :
          LET st == LengthIteration(offset_df,
                        [max_shift |-> max_shift,
                         max_shift_position |-> max_shift_position,
                         offset_dict |-> offset_dict], length)
          IN  /\ max_shift' = st.max_shift
              /\ max_shift_position' = st.max_shift_position
              /\ offset_dict' = st.offset_dict
              /\ todo' = todo \ {length}
    /\ UNCHANGED <<pc, bam_df, exon_df, cds_df, offsets, offsets_arg, bam_tran,
                   bam_to_cds, offset_df, inferred, bed, err>>

\* line 300, and the assignment of line 346
CpaReturn ==
    /\ pc = "change_point_analysis"
    /\ todo = {}
    /\ offsets' = [none |-> FALSE, map |-> offset_dict]
    /\ pc' = "asitecalc"
    /\ UNCHANGED <<bam_df, exon_df, cds_df, offsets_arg, bam_tran, bam_to_cds,
                   offset_df, todo, max_shift, max_shift_position, offset_dict,
                   inferred, bed, err>>

\* line 348: bed = asitecalc(bam_to_cds, offsets)
AsiteCalc ==
    /\ pc = "asitecalc"
    /\ LET res == asitecalc(bam_to_cds, offsets.map)
       IN  IF res.err = "none"
           THEN /\ pc' = "done"
                /\ bed' = res.rows
                /\ err' = err
           ELSE /\ pc' = "failed"
                /\ bed' = bed
                /\ err' = res.err
    /\ UNCHANGED <<bam_df, exon_df, cds_df, offsets, offsets_arg, bam_tran,
                   bam_to_cds, offset_df, todo, max_shift, max_shift_position,
                   offset_dict, inferred>>

(***************************************************************************)
(* Inputs.                                                                 *)
(***************************************************************************)
Chrs == {1, 2}              \* chromosome names, numbered in lexicographic order
TranIds == {"tranA", "tranB"}
TranOrder == <<"tranA", "tranB">>

SeqsUpTo(S, n) == UNION {[1..k -> S] : k \in 0..n}

\* a row of df_namesplit: line 321 makes length = stop - start
ReadRow(chr, start, length, count) ==
    [count |-> count, chr |-> chr, start |-> start, stop |-> start + length,
     length |-> length]

\* an annotation row for the exons segs = <<<<start, stop>>, ...>>, the
\* transcript coordinates running on from exon to exon from 0
RECURSIVE TranStarts(_)
TranStarts(segs) ==
    IF segs = <<>> THEN <<>>
    ELSE LET n == Len(segs)
             prev == TranStarts(SubSeq(segs, 1, n - 1))
         IN  Append(prev, IF n = 1 THEN 0
                          ELSE prev[n - 1] + (segs[n - 1][2] - segs[n - 1][1]))

Transcript(chr, tran_id, segs) ==
    LET ts == TranStarts(segs)
    IN  [chr |-> chr, tran_id |-> tran_id,
         start |-> [k \in DOMAIN segs |-> segs[k][1]],
         stop |-> [k \in DOMAIN segs |-> segs[k][2]],
         tran_start |-> ts,
         tran_stop |-> [k \in DOMAIN segs |-> ts[k] + (segs[k][2] - segs[k][1])]]

\* annotation tables: each transcript absent (<<>>) or <<chr, segs>>
ExonTable(f) ==
    Concat([k \in DOMAIN TranOrder |->
               IF f[TranOrder[k]] = <<>> THEN <<>>
               ELSE <<Transcript(f[TranOrder[k]][1], TranOrder[k], f[TranOrder[k]][2])>>])

\* CDS tables with one record per transcript: absent (<<>>) or <<tran_start>>
CdsTable(f) ==
    Concat([k \in DOMAIN TranOrder |->
               IF f[TranOrder[k]] = <<>> THEN <<>>
               ELSE <<[tran_id |-> TranOrder[k], tran_start |-> f[TranOrder[k]][1]]>>])

NoOffsets == [none |-> TRUE, map |-> <<>>]
OffsetMaps(vals) == {[none |-> FALSE, map |-> m] :
                        m \in UNION {[D -> vals] : D \in SUBSET Lengths}}

\* the variables a run has not yet assigned
Blank ==
    /\ bam_tran = [rows |-> <<>>, nulls |-> 0]
    /\ bam_to_cds = <<>>
    /\ offset_df = {}
    /\ todo = {}
    /\ max_shift = 0
    /\ max_shift_position = None
    /\ offset_dict = <<>>
    /\ inferred = FALSE
    /\ bed = <<>>
    /\ err = "none"

(***************************************************************************)
(* dftobed from its call of bamtranscript on: the whole pipeline.          *)
(***************************************************************************)
PipeReadRows ==
    {ReadRow(1, 100, l, c) : l \in Lengths, c \in Counts} \cup {ReadRow(1, 172, 29, 1)}
PipeExonChoices ==
    {f \in [TranIds -> {<<>>, <<1, <<<<90, 200>>>>>>, <<1, <<<<95, 200>>>>>>}] :
        f["tranA"] # <<1, <<<<95, 200>>>>>> /\ f["tranB"] # <<1, <<<<90, 200>>>>>>}
PipeCdsChoices ==
    {f \in [TranIds -> {<<>>, <<0>>, <<5>>}] : f["tranA"] # <<5>> /\ f["tranB"] # <<0>>}

Init ==
    /\ pc = "bamtranscript"
    /\ bam_df \in SeqsUpTo(PipeReadRows, MaxReads)
    /\ exon_df \in {ExonTable(f) : f \in PipeExonChoices}
    /\ cds_df \in {CdsTable(f) : f \in PipeCdsChoices}
    /\ offsets \in {NoOffsets} \cup OffsetMaps({15})
    /\ offsets_arg = offsets
    /\ Blank

Next ==
    \/ BamTranscript
    \/ BamRelativeToCds
    \/ DfToBedInfer
    \/ DfToBedSupplied
    \/ CpaLength
    \/ CpaReturn
    \/ AsiteCalc

Spec == Init /\ [][Next]_vars

(***************************************************************************)
(* change_point_analysis on its own, called with any histogram.            *)
(***************************************************************************)
\* histograms: for each length, counts at some of the positions (a length
\* without a row is not in the histogram); keys (length, position) unique
HistFns == UNION {[D -> HistCounts] : D \in SUBSET HistPositions}
Histogram(f) ==
    UNION {{[bamcds_start |-> p, length |-> l, count |-> f[l][p]] : p \in DOMAIN f[l]} :
              l \in Lengths}

InitCpa ==
    /\ pc = "change_point_analysis"
    /\ offset_df \in {Histogram(f) : f \in [Lengths -> HistFns]}
    /\ todo = UniqueLengths(offset_df)
    /\ max_shift = CpaLocals.max_shift
    /\ max_shift_position = CpaLocals.max_shift_position
    /\ offset_dict = CpaLocals.offset_dict
    /\ inferred = TRUE
    /\ bam_df = <<>> /\ exon_df = <<>> /\ cds_df = <<>>
    /\ offsets = NoOffsets /\ offsets_arg = NoOffsets
    /\ bam_tran = [rows |-> <<>>, nulls |-> 0]
    /\ bam_to_cds = <<>>
    /\ bed = <<>>
    /\ err = "none"

NextCpa == CpaLength \/ CpaReturn

SpecCpa == InitCpa /\ [][NextCpa]_vars

\* change_point_analysis has returned; offsets.map is what it returned
CpaReturned == pc = "asitecalc" /\ inferred

\* The quantities the specification of the offset inference speaks of.
\* H[j]: the count of length L at cds-relative start j, 0 where absent
HAt(df, L, j) ==
    LET rows == {r \in df : r.length = L /\ r.bamcds_start = j}
    IN  IF rows = {} THEN 0 ELSE (CHOOSE r \in rows : TRUE).count
\* 4 * shift(i) = |sum(H[i+1..i+4]) - sum(H[i-3..i])|
ShiftAt(df, L, i) ==
    Abs((HAt(df, L, i + 1) + HAt(df, L, i + 2) + HAt(df, L, i + 3) + HAt(df, L, i + 4))
        - (HAt(df, L, i - 3) + HAt(df, L, i - 2) + HAt(df, L, i - 1) + HAt(df, L, i)))
ScanRange == ScanFirst..ScanLast
HasPositiveShift(df, L) == \E i \in ScanRange : ShiftAt(df, L, i) > 0
SmallestArgMax(df, L) ==
    CHOOSE i \in ScanRange :
        /\ \A k \in ScanRange : ShiftAt(df, L, k) <= ShiftAt(df, L, i)
        /\ \A k \in ScanRange : k < i => ShiftAt(df, L, k) < ShiftAt(df, L, i)

\* C1: once change_point_analysis has returned, every length of the histogram
\* that has a positive shift at some candidate i in -30..10 is given the
\* smallest i in -30..10 that maximizes shift(i).
C1_OffsetIsSmallestArgMax ==
    CpaReturned =>
        \A L \in UniqueLengths(offset_df) :
            HasPositiveShift(offset_df, L) =>
                offsets.map[L] = SmallestArgMax(offset_df, L)

\* C2: once change_point_analysis has returned, every length whose own
\* histogram has no positive shift at any candidate i is given the fallback
\* offset 15, whatever other lengths the histogram holds.
C2_FlatLengthGetsFallback ==
    CpaReturned =>
        \A L \in UniqueLengths(offset_df) :
            ~HasPositiveShift(offset_df, L) => offsets.map[L] = FallbackOffset

\* C7: the offset returned for a length L is the one change_point_analysis
\* returns for the histogram that holds the rows of L alone: it does not
\* depend on the rows of other lengths nor on the order of the lengths.
C7_OffsetDependsOnOwnRowsOnly ==
    CpaReturned =>
        \A L \in UniqueLengths(offset_df) :
            offsets.map[L] = ChangePointAnalysis(OffsetDfLen(offset_df, L), <<L>>)[L]

(***************************************************************************)
(* bamtranscript on its own, called with any reads and annotation.         *)
(***************************************************************************)
ReadStarts == {100, 172, 225150}
ExonCoords == {90, 200, 225100, 225300}
SegLists ==
    {<<<<a, b>>>> : <<a, b>> \in {x \in ExonCoords \X ExonCoords : x[1] < x[2]}}
    \cup {<<<<90, 200>>, <<225100, 225300>>>>}

TranReadRows ==
    {ReadRow(1, st, l, 1) : st \in ReadStarts, l \in Lengths} \cup {ReadRow(2, 100, 28, 1)}
TranExonChoices ==
    {f \in [TranIds -> {<<>>} \cup {<<c, segs>> : c \in Chrs, segs \in SegLists}] :
        f["tranA"] # <<>> => f["tranA"][1] = 1}

InitTran ==
    /\ pc = "bamtranscript"
    /\ bam_df \in SeqsUpTo(TranReadRows, MaxReads)
    /\ exon_df \in {ExonTable(f) : f \in TranExonChoices}
    /\ cds_df = <<>>
    /\ offsets = NoOffsets
    /\ offsets_arg = NoOffsets
    /\ Blank

NextTran == BamTranscript

SpecTran == InitTran /\ [][NextTran]_vars

\* bamtranscript has returned its frame (it did not raise)
TranReturned == pc = "bamrelativetocds"

\* the exon segments of the annotation, one per exon
ExonSegments == Range(ExplodeExons(exon_df))

\* r is the projection of read b through exon e
IsProjection(r, b, e) ==
    /\ b.chr = e.chr
    /\ b.start >= e.start
    /\ b.stop <= e.stop
    /\ r.chr = b.chr /\ r.start = b.start /\ r.stop = b.stop
    /\ r.length = b.length /\ r.count = b.count
    /\ r.tran_id = e.tran_id
    /\ r.tran_start_bam = e.tran_start + (b.start - e.start)
    /\ r.tran_stop_bam = e.tran_stop - (e.stop - b.stop)

ChrMinVal(c) == SetMin({e.start : e \in {x \in ExonSegments : x.chr = c}})
WindowOf(c, start) == (start - ChrMinVal(c)) \div WindowSize
\* the pairs (index of a read, exon segment) projected under that reading
SameStartWindowPairs ==
    {<<k, e>> \in (DOMAIN bam_df) \X ExonSegments :
        /\ bam_df[k].chr = e.chr
        /\ bam_df[k].start >= ChrMinVal(e.chr)
        /\ WindowOf(e.chr, bam_df[k].start) = WindowOf(e.chr, e.start)
        /\ bam_df[k].start >= e.start
        /\ bam_df[k].stop <= e.stop}

ChrMaxVal(c) == SetMax({e.stop : e \in {x \in ExonSegments : x.chr = c}})
ChrWindows(c) ==
    {ChrMinVal(c) + n * WindowSize :
        n \in {m \in 0..((ChrMaxVal(c) - ChrMinVal(c)) \div WindowSize) :
                  ChrMinVal(c) + m * WindowSize < ChrMaxVal(c)}}
WhollyIn(r, w) == r.start >= w /\ r.stop <= w + WindowSize
PairsInOneWindow ==
    {<<k, e>> \in (DOMAIN bam_df) \X ExonSegments :
        /\ bam_df[k].chr = e.chr
        /\ \E w \in ChrWindows(e.chr) : WhollyIn(bam_df[k], w) /\ WhollyIn(e, w)
        /\ bam_df[k].start >= e.start
        /\ bam_df[k].stop <= e.stop}

CdsTranIds == TranIds \cup {"tranC"}
ProjRows ==
    {[count |-> 1, chr |-> 1, start |-> 100, stop |-> 100 + l, length |-> l,
      tran_id |-> t, tran_start_bam |-> ts, tran_stop_bam |-> ts + l] :
        l \in Lengths, t \in CdsTranIds, ts \in {10, 40}}
CdsRows == {[tran_id |-> t, tran_start |-> ts] : t \in TranIds, ts \in {0, 5}}

InitCds ==
    /\ pc = "bamrelativetocds"
    /\ bam_df = <<>>
    /\ exon_df = <<>>
    /\ cds_df \in SeqsUpTo(CdsRows, MaxCds)
    /\ offsets = NoOffsets
    /\ offsets_arg = NoOffsets
    /\ bam_tran \in {[rows |-> r, nulls |-> n] :
                        r \in SeqsUpTo(ProjRows, MaxReads), n \in 0..1}
    /\ bam_to_cds = <<>>
    /\ offset_df = {}
    /\ todo = {}
    /\ max_shift = 0
    /\ max_shift_position = None
    /\ offset_dict = <<>>
    /\ inferred = FALSE
    /\ bed = <<>>
    /\ err = "none"

NextCds == BamRelativeToCds

SpecCds == InitCds /\ [][NextCds]_vars

CdsTranIdsOf(df) == {df[k].tran_id : k \in DOMAIN df}
\* each transcript has at most one CDS record
OneCdsPerTranscript ==
    \A a, b \in DOMAIN cds_df : cds_df[a].tran_id = cds_df[b].tran_id => a = b
\* the projected reads whose transcript has a CDS record, in input order
HasCds(r) == r.tran_id \in CdsTranIdsOf(cds_df)
WithCds == SelectSeq(bam_tran.rows, HasCds)

\* C9: bamrelativetocds returns one row per projected read whose tran_id has
\* a CDS record (a read projected onto several transcripts keeps one row per
\* transcript, reads without a CDS record are left out), each with
\* bamcds_start = tran_start_bam minus the tran_start of a CDS record of the
\* same tran_id; and with one CDS record per transcript the lookup never
\* raises.
C9_OneRowPerReadWithCds ==
    /\ (pc = "failed" => ~OneCdsPerTranscript)
    /\ (pc = "offsets" =>
          /\ Len(bam_to_cds) = Len(WithCds)
          /\ \A k \in DOMAIN bam_to_cds :
                /\ bam_to_cds[k].tran_id = WithCds[k].tran_id
                /\ bam_to_cds[k].start = WithCds[k].start
                /\ bam_to_cds[k].stop = WithCds[k].stop
                /\ bam_to_cds[k].length = WithCds[k].length
                /\ bam_to_cds[k].count = WithCds[k].count
                /\ bam_to_cds[k].chr = WithCds[k].chr
                /\ \E c \in Range(cds_df) :
                      /\ c.tran_id = WithCds[k].tran_id
                      /\ bam_to_cds[k].bamcds_start = WithCds[k].tran_start_bam - c.tran_start
                /\ (OneCdsPerTranscript =>
                      \A c \in Range(cds_df) :
                          c.tran_id = WithCds[k].tran_id =>
                              bam_to_cds[k].bamcds_start
                                  = WithCds[k].tran_start_bam - c.tran_start))

\* the same read projected onto two transcripts, both with a CDS record of
\* their own, and a read of a transcript without one
C9_Witness ==
    /\ pc = "offsets"
    /\ OneCdsPerTranscript
    /\ Len(cds_df) = 2
    /\ cds_df[1].tran_start # cds_df[2].tran_start
    /\ Len(bam_tran.rows) = 2
    /\ Len(bam_to_cds) = 2
    /\ bam_to_cds[1].tran_id # bam_to_cds[2].tran_id
    /\ bam_to_cds[1].bamcds_start # bam_to_cds[2].bamcds_start
    /\ bam_tran.rows[1].tran_start_bam = bam_tran.rows[2].tran_start_bam

(***************************************************************************)
(* asitecalc on its own, called with any table and any offset map.         *)
(***************************************************************************)
AsiteRows ==
    {[count |-> c, chr |-> 1, start |-> st, stop |-> st + l, length |-> l,
      tran_id |-> "tranA", bamcds_start |-> 5] :
        c \in Counts, st \in {100, 101}, l \in Lengths}
    \cup {[count |-> c, chr |-> 2, start |-> 100, stop |-> 128, length |-> 28,
           tran_id |-> "tranA", bamcds_start |-> 5] : c \in Counts}

InitAsite ==
    /\ pc = "asitecalc"
    /\ bam_df = <<>>
    /\ exon_df = <<>>
    /\ cds_df = <<>>
    /\ offsets \in OffsetMaps({14, 15})
    /\ offsets_arg = offsets
    /\ bam_tran = [rows |-> <<>>, nulls |-> 0]
    /\ bam_to_cds \in SeqsUpTo(AsiteRows, MaxReads)
    /\ offset_df = {}
    /\ todo = {}
    /\ max_shift = 0
    /\ max_shift_position = None
    /\ offset_dict = <<>>
    /\ inferred = FALSE
    /\ bed = <<>>
    /\ err = "none"

NextAsite == AsiteCalc

SpecAsite == InitAsite /\ [][NextAsite]_vars

\* asitecalc has returned or raised
AsiteEnded == pc \in {"done", "failed"}
\* the offset map has an entry for every length of the table
MapCovers == \A k \in DOMAIN bam_to_cds : bam_to_cds[k].length \in DOMAIN offsets.map
\* the (chr, A-site) pairs of the rows of the table
ASitePairs ==
    {<<bam_to_cds[k].chr, bam_to_cds[k].start + offsets.map[bam_to_cds[k].length]>> :
        k \in DOMAIN bam_to_cds}
\* the total count of the rows of the table that map to the pair
PairCount(pair) ==
    LET onPair(r) == r.chr = pair[1] /\ r.start + offsets.map[r.length] = pair[2]
        g == SelectSeq(bam_to_cds, onPair)
    IN  SumSeq([k \in DOMAIN g |-> g[k].count])

\* C6: for any table and any offset map covering its lengths, asitecalc
\* returns exactly one record per distinct pair (chr, start + offsets[length])
\* of the rows, with the summed count and stop = position + 1, in strictly
\* ascending order of (chr, position).
C6_OneRecordPerASite ==
    (AsiteEnded /\ MapCovers) =>
        /\ pc = "done"
        /\ {<<bed[k].chr, bed[k].pos>> : k \in DOMAIN bed} = ASitePairs
        /\ Len(bed) = Cardinality(ASitePairs)
        /\ \A k \in DOMAIN bed :
              /\ bed[k].count = PairCount(<<bed[k].chr, bed[k].pos>>)
              /\ bed[k].stop = bed[k].pos + 1
        /\ \A k \in 1..(Len(bed) - 1) :
              \/ bed[k].chr < bed[k + 1].chr
              \/ (bed[k].chr = bed[k + 1].chr /\ bed[k].pos < bed[k + 1].pos)

\* C8: if some row has a length without an entry in the offset map,
\* asitecalc raises and returns no profile.
C8_MissingLengthFails ==
    (AsiteEnded /\ ~MapCovers) => (pc = "failed" /\ err = "KeyError" /\ bed = <<>>)

\* a table with rows of two lengths, of which the map knows one only
C8_Witness ==
    /\ pc = "failed"
    /\ err = "KeyError"
    /\ Len(bam_to_cds) = 2
    /\ bam_to_cds[1].length \in DOMAIN offsets.map
    /\ bam_to_cds[2].length \notin DOMAIN offsets.map

(***************************************************************************)
(* Properties of the whole pipeline (Spec).                                *)
(***************************************************************************)
CountTotal(df) == SumSeq([k \in DOMAIN df |-> df[k].count])

\* an input read survives every filtering stage: some exon of a transcript
\* with a CDS record contains it
Survives(b) ==
    \E e \in ExonSegments :
        /\ b.chr = e.chr /\ b.start >= e.start /\ b.stop <= e.stop
        /\ \E k \in DOMAIN cds_df : cds_df[k].tran_id = e.tran_id
Survivors == SelectSeq(bam_df, Survives)

\* C3: count conservation: the counts of the A-site records add up to the
\* counts of the input reads that survive every filtering stage, each
\* counted once, and so to no more than the counts of all the input reads.
C3_CountConservation ==
    pc = "done" =>
        /\ CountTotal(bed) = CountTotal(Survivors)
        /\ CountTotal(bed) <= CountTotal(bam_df)

\* dftobed is past the test of line 341
PastOffsetsTest == pc \in {"change_point_analysis", "asitecalc", "done"}

====
